---- MODULE Spec2Model ----
(***************************************************************************)
(* HRMS Lite: the Employee / Attendance request handlers of                *)
(* backend/app/main.py over the relational store they share.               *)
(*                                                                         *)
(* A request is handled by a worker in steps: every db.query(...).first()  *)
(* is one read of the committed store, db.commit() is one atomic write in  *)
(* which the store enforces the constraints the schema declares (UNIQUE,   *)
(* FOREIGN KEY ... ON DELETE CASCADE).  Between the steps of one request   *)
(* other workers may take steps of theirs.                                 *)
(***************************************************************************)
EXTENDS Integers, Sequences, FiniteSets, TLC

VARIABLES
    employees,    \* table employees: id -> row
    attendance,   \* table attendance: id -> row
    nextEmpId,    \* next value of the employees.id sequence
    nextAttId,    \* next value of the attendance.id sequence
    pc,           \* per worker: position inside the handler it runs
    req           \* per worker: the request it handles, its session state, its response

vars == <<employees, attendance, nextEmpId, nextAttId, pc, req>>

----------------------------------------------------------------------------
(* Bounds of the model *)

MaxEmployees == 2
MaxAttendance == 2

(* Program constants *)

HTTP_200_OK == 200
HTTP_201_CREATED == 201
HTTP_204_NO_CONTENT == 204
HTTP_400_BAD_REQUEST == 400
HTTP_404_NOT_FOUND == 404
HTTP_422_UNPROCESSABLE == 422
HTTP_500_INTERNAL == 500

MinLength == 1
MaxEmployeeIdLength == 50
MaxFullNameLength == 255
MaxDepartmentLength == 100

----------------------------------------------------------------------------
(* Values *)

\* Optional[T]: None is the empty sequence, a present value v is <<v>>.
None == <<>>
Some(v) == <<v>>
IsNone(o) == o = <<>>
Val(o) == o[1]

\* The string of n copies of s.
RECURSIVE Rep(_, _)
Rep(s, n) ==
    IF n = 0 THEN ""
    ELSE IF n % 2 = 0 THEN LET h == Rep(s, n \div 2) IN h \o h
    ELSE s \o Rep(s, n - 1)

Procs == {"w1", "w2"}

\* What a worker holds: the operation, the id it addresses (or was assigned),
\* the payload, the row its session loaded, and once it has answered the
\* status code and the exception behind it.
Idle == [op |-> "none", id |-> 0, body |-> <<>>, snap |-> <<>>, code |-> 0, exc |-> "none"]

Request(op, id, body, snap) ==
    [op |-> op, id |-> id, body |-> body, snap |-> snap, code |-> 0, exc |-> "none"]

Response(op, id, body, code, exc) ==
    [op |-> op, id |-> id, body |-> body, snap |-> <<>>, code |-> code, exc |-> exc]

----------------------------------------------------------------------------
(* Pydantic schemas *)

\* EmployeeBase / EmployeeCreate: field constraints of the create payload.
EmployeeCreateValid(b) ==
    /\ Len(b.employee_id) >= MinLength
    /\ Len(b.employee_id) <= MaxEmployeeIdLength
    /\ Len(b.full_name) >= MinLength
    /\ Len(b.full_name) <= MaxFullNameLength
    /\ (IsNone(b.department) \/ Len(Val(b.department)) <= MaxDepartmentLength)

\* A JSON body is a function from the keys it holds to Optional values
\* (None for JSON null).  A key the body omits takes the schema's default,
\* None: the parsed model keeps no trace of which of the two it was.
Field(body, k) == IF k \in DOMAIN body THEN body[k] ELSE None

EmployeeUpdateParse(body) ==
    [full_name  |-> Field(body, "full_name"),
     email      |-> Field(body, "email"),
     department |-> Field(body, "department")]

\* EmployeeUpdate: field constraints of the update payload.
EmployeeUpdateValid(u) ==
    /\ (IsNone(u.full_name) \/ Len(Val(u.full_name)) <= MaxFullNameLength)
    /\ (IsNone(u.department) \/ Len(Val(u.department)) <= MaxDepartmentLength)

\* AttendanceBase / AttendanceUpdate: status is Literal["Present", "Absent"].
StatusValid(s) == s \in {"Present", "Absent"}

----------------------------------------------------------------------------
(* The store: queries and the constraints of the schema *)

EmployeeByEmployeeId(code) == {i \in DOMAIN employees : employees[i].employee_id = code}
EmployeeByEmail(email) == {i \in DOMAIN employees : employees[i].email = email}
AttendanceByEmployeeDate(e, d) ==
    {i \in DOMAIN attendance : attendance[i].employee_id = e /\ attendance[i].date = d}
AttendanceOfEmployee(e) == {i \in DOMAIN attendance : attendance[i].employee_id = e}

\* Variant: the columns carry no UNIQUE constraint.
EmployeeUniqueOK_Unenforced(i, row) == TRUE

\* employees.employee_id UNIQUE and employees.email UNIQUE, for row i taking `row`.
EmployeeUniqueOK(i, row) ==
    \A j \in DOMAIN employees \ {i} :
        /\ employees[j].employee_id # row.employee_id
        /\ employees[j].email # row.email

\* Variant: the table carries no UniqueConstraint.
AttendanceUniqueOK_Unenforced(row) == TRUE

\* attendance UNIQUE(employee_id, date), for a new row.
AttendanceUniqueOK(row) == AttendanceByEmployeeDate(row.employee_id, row.date) = {}

\* Variant: the column carries no ForeignKey.
ForeignKeyOK_Unenforced(row) == TRUE

\* attendance.employee_id REFERENCES employees(id).
ForeignKeyOK(row) == row.employee_id \in DOMAIN employees

\* Variant: neither the relationship nor the foreign key cascades.
AttendanceAfterCascade_NoCascade(e) == attendance

\* DELETE FROM employees WHERE id = e, with ON DELETE CASCADE on attendance.
AttendanceAfterCascade(e) ==
    [i \in DOMAIN attendance \ AttendanceOfEmployee(e) |-> attendance[i]]

Without(f, i) == [j \in DOMAIN f \ {i} |-> f[j]]
With(f, i, row) == [j \in DOMAIN f \cup {i} |-> IF j = i THEN row ELSE f[j]]

----------------------------------------------------------------------------
Init ==
    /\ employees = <<>>
    /\ attendance = <<>>
    /\ nextEmpId = 1
    /\ nextAttId = 1
    /\ pc = [p \in Procs |-> "idle"]
    /\ req = [p \in Procs |-> Idle]

\* The handler returns or raises: the worker has its response.
Respond(p, r) ==
    /\ pc' = [pc EXCEPT ![p] = "done"]
    /\ req' = [req EXCEPT ![p] = r]

Continue(p, at, r) ==
    /\ pc' = [pc EXCEPT ![p] = at]
    /\ req' = [req EXCEPT ![p] = r]

\* get_db's finally: the session is closed on every exit path, and the worker
\* is free for the next request.
get_db_close(p) ==
    /\ pc[p] = "done"
    /\ pc' = [pc EXCEPT ![p] = "idle"]
    /\ req' = [req EXCEPT ![p] = Idle]
    /\ UNCHANGED <<employees, attendance, nextEmpId, nextAttId>>

StoreUnchanged == UNCHANGED <<employees, attendance, nextEmpId, nextAttId>>

\* The ids the sequences may still hand out are reserved when a create starts.
InFlight(op) == Cardinality({p \in Procs : pc[p] \notin {"idle", "done"} /\ req[p].op = op})

----------------------------------------------------------------------------
(* POST /api/employees *)

\* Validation of the payload, then the first uniqueness query (employee_id).
create_employee_begin(p, employee_in) ==
    /\ pc[p] = "idle"
    /\ nextEmpId + InFlight("create_employee") <= MaxEmployees
    /\ StoreUnchanged
    /\ IF ~EmployeeCreateValid(employee_in)
       THEN Respond(p, Response("create_employee", 0, employee_in,
                                HTTP_422_UNPROCESSABLE, "ValidationError"))
       ELSE IF EmployeeByEmployeeId(employee_in.employee_id) # {}
       THEN Respond(p, Response("create_employee", 0, employee_in,
                                HTTP_400_BAD_REQUEST, "HTTPException"))
       ELSE Continue(p, "create_employee_email",
                     Request("create_employee", 0, employee_in, <<>>))

\* The second uniqueness query (email).
create_employee_email(p) ==
    /\ pc[p] = "create_employee_email"
    /\ StoreUnchanged
    /\ IF EmployeeByEmail(req[p].body.email) # {}
       THEN Respond(p, Response("create_employee", 0, req[p].body,
                                HTTP_400_BAD_REQUEST, "HTTPException"))
       ELSE Continue(p, "create_employee_commit", req[p])

\* The row db.add() inserts; created_at is the store's time of the insert.
NewEmployee(employee_in) ==
    [employee_id |-> employee_in.employee_id,
     full_name   |-> employee_in.full_name,
     email       |-> employee_in.email,
     department  |-> employee_in.department,
     created_at  |-> nextEmpId]

\* db.add(db_employee); db.commit(): the INSERT, which the store rejects with
\* IntegrityError (a UniqueViolation) when a UNIQUE constraint fails; the
\* handler does not catch it, and the framework answers 500.
create_employee_commit(p) ==
    /\ pc[p] = "create_employee_commit"
    /\ UNCHANGED <<attendance, nextAttId>>
    /\ LET row == NewEmployee(req[p].body) IN
       IF EmployeeUniqueOK(nextEmpId, row)
       THEN /\ employees' = With(employees, nextEmpId, row)
            /\ nextEmpId' = nextEmpId + 1
            /\ Respond(p, Response("create_employee", nextEmpId, req[p].body,
                                   HTTP_201_CREATED, "none"))
       ELSE /\ UNCHANGED <<employees, nextEmpId>>
            /\ Respond(p, Response("create_employee", 0, req[p].body,
                                   HTTP_500_INTERNAL, "UniqueViolation"))

----------------------------------------------------------------------------
(* PUT /api/employees/{employee_id} *)

\* Python truthiness of Optional[str]: None and "" are false.
Truthy(o) == ~IsNone(o) /\ Val(o) # ""

\* Variant: the email is checked even when it is the Employee's own.
EmailCheckNeeded_Always(employee_in, employee) == Truthy(employee_in.email)

\* employee_in.email and employee_in.email != employee.email
EmailCheckNeeded(employee_in, employee) ==
    Truthy(employee_in.email) /\ Val(employee_in.email) # employee.email

\* Validation of the payload, then the lookup of the Employee by id; the row
\* found is the session's copy of it.
update_employee_begin(p, employee_id, body) ==
    /\ pc[p] = "idle"
    /\ StoreUnchanged
    /\ LET employee_in == EmployeeUpdateParse(body) IN
       IF ~EmployeeUpdateValid(employee_in)
       THEN Respond(p, Response("update_employee", employee_id, body,
                                HTTP_422_UNPROCESSABLE, "ValidationError"))
       ELSE IF employee_id \notin DOMAIN employees
       THEN Respond(p, Response("update_employee", employee_id, body,
                                HTTP_404_NOT_FOUND, "HTTPException"))
       ELSE LET r == Request("update_employee", employee_id, body, employees[employee_id]) IN
            IF EmailCheckNeeded(employee_in, employees[employee_id])
            THEN Continue(p, "update_employee_email", r)
            ELSE Continue(p, "update_employee_commit", r)

\* The uniqueness query for a new email.
update_employee_email(p) ==
    /\ pc[p] = "update_employee_email"
    /\ StoreUnchanged
    /\ IF EmployeeByEmail(Val(EmployeeUpdateParse(req[p].body).email)) # {}
       THEN Respond(p, Response("update_employee", req[p].id, req[p].body,
                                HTTP_400_BAD_REQUEST, "HTTPException"))
       ELSE Continue(p, "update_employee_commit", req[p])

\* The attributes the handler assigns: those of the payload that are not None.
EmployeeAssigned(employee_in) ==
    {k \in {"full_name", "email", "department"} : ~IsNone(employee_in[k])}

\* The value assigned to attribute k, as the row holds it (department is
\* nullable, so it is held as an Optional).
AssignedValue(employee_in, k) ==
    IF k = "department" THEN employee_in[k] ELSE Val(employee_in[k])

\* The columns of the UPDATE the session flushes: an assigned attribute whose
\* value equals the one the session loaded is no change.
EmployeeDirty(snap, employee_in) ==
    {k \in EmployeeAssigned(employee_in) : AssignedValue(employee_in, k) # snap[k]}

\* Variant: department is assigned from the payload whether it is None or not.
EmployeeUpdated_AssignDepartment(row, employee_in, dirty) ==
    [employee_id |-> row.employee_id,
     full_name   |-> IF "full_name" \in dirty
                     THEN AssignedValue(employee_in, "full_name") ELSE row.full_name,
     email       |-> IF "email" \in dirty
                     THEN AssignedValue(employee_in, "email") ELSE row.email,
     department  |-> employee_in.department,
     created_at  |-> row.created_at]

EmployeeUpdated(row, employee_in, dirty) ==
    [employee_id |-> row.employee_id,
     full_name   |-> IF "full_name" \in dirty
                     THEN AssignedValue(employee_in, "full_name") ELSE row.full_name,
     email       |-> IF "email" \in dirty
                     THEN AssignedValue(employee_in, "email") ELSE row.email,
     department  |-> IF "department" \in dirty
                     THEN AssignedValue(employee_in, "department") ELSE row.department,
     created_at  |-> row.created_at]

\* db.commit(); db.refresh(employee).  The UPDATE of a row that is gone raises
\* StaleDataError, a UNIQUE failure IntegrityError (a UniqueViolation), the
\* refresh of a row that is gone InvalidRequestError; the handler catches none.
update_employee_commit(p) ==
    /\ pc[p] = "update_employee_commit"
    /\ UNCHANGED <<attendance, nextAttId, nextEmpId>>
    /\ LET id == req[p].id
           employee_in == EmployeeUpdateParse(req[p].body)
           dirty == EmployeeDirty(req[p].snap, employee_in)
       IN
       IF id \notin DOMAIN employees
       THEN /\ UNCHANGED employees
            /\ Respond(p, Response("update_employee", id, req[p].body, HTTP_500_INTERNAL,
                       IF dirty = {} THEN "InvalidRequestError" ELSE "StaleDataError"))
       ELSE LET row == EmployeeUpdated(employees[id], employee_in, dirty) IN
            IF EmployeeUniqueOK(id, row)
            THEN /\ employees' = With(employees, id, row)
                 /\ Respond(p, Response("update_employee", id, req[p].body,
                                        HTTP_200_OK, "none"))
            ELSE /\ UNCHANGED employees
                 /\ Respond(p, Response("update_employee", id, req[p].body,
                                        HTTP_500_INTERNAL, "UniqueViolation"))

----------------------------------------------------------------------------
(* DELETE /api/employees/{employee_id} *)

delete_employee_begin(p, employee_id) ==
    /\ pc[p] = "idle"
    /\ StoreUnchanged
    /\ IF employee_id \notin DOMAIN employees
       THEN Respond(p, Response("delete_employee", employee_id, <<>>,
                                HTTP_404_NOT_FOUND, "HTTPException"))
       ELSE Continue(p, "delete_employee_commit",
                     Request("delete_employee", employee_id, <<>>, <<>>))

\* db.delete(employee); db.commit(): the Attendance rows of the Employee go
\* with it (relationship cascade and ON DELETE CASCADE).  A DELETE that
\* matches no row is a warning, not an error.
delete_employee_commit(p) ==
    /\ pc[p] = "delete_employee_commit"
    /\ UNCHANGED <<nextEmpId, nextAttId>>
    /\ employees' = Without(employees, req[p].id)
    /\ attendance' = AttendanceAfterCascade(req[p].id)
    /\ Respond(p, Response("delete_employee", req[p].id, <<>>,
                           HTTP_204_NO_CONTENT, "none"))

----------------------------------------------------------------------------
(* POST /api/attendance *)

\* Variant: the referenced Employee is not looked up.
create_attendance_begin_NoLookup(p, attendance_in) ==
    /\ pc[p] = "idle"
    /\ nextAttId + InFlight("create_attendance") <= MaxAttendance
    /\ StoreUnchanged
    /\ IF ~StatusValid(attendance_in.status)
       THEN Respond(p, Response("create_attendance", 0, attendance_in,
                                HTTP_422_UNPROCESSABLE, "ValidationError"))
       ELSE Continue(p, "create_attendance_existing",
                     Request("create_attendance", 0, attendance_in, <<>>))

\* Validation of the payload, then the lookup of the referenced Employee.
create_attendance_begin(p, attendance_in) ==
    /\ pc[p] = "idle"
    /\ nextAttId + InFlight("create_attendance") <= MaxAttendance
    /\ StoreUnchanged
    /\ IF ~StatusValid(attendance_in.status)
       THEN Respond(p, Response("create_attendance", 0, attendance_in,
                                HTTP_422_UNPROCESSABLE, "ValidationError"))
       ELSE IF attendance_in.employee_id \notin DOMAIN employees
       THEN Respond(p, Response("create_attendance", 0, attendance_in,
                                HTTP_404_NOT_FOUND, "HTTPException"))
       ELSE Continue(p, "create_attendance_existing",
                     Request("create_attendance", 0, attendance_in, <<>>))

\* The query for a record of the same employee and date.
create_attendance_existing(p) ==
    /\ pc[p] = "create_attendance_existing"
    /\ StoreUnchanged
    /\ IF AttendanceByEmployeeDate(req[p].body.employee_id, req[p].body.date) # {}
       THEN Respond(p, Response("create_attendance", 0, req[p].body,
                                HTTP_400_BAD_REQUEST, "HTTPException"))
       ELSE Continue(p, "create_attendance_commit", req[p])

NewAttendance(attendance_in) ==
    [employee_id |-> attendance_in.employee_id,
     date        |-> attendance_in.date,
     status      |-> attendance_in.status]

\* db.add(db_attendance); db.commit(): the INSERT, which the store rejects with
\* IntegrityError when the FOREIGN KEY (a ForeignKeyViolation) or the UNIQUE
\* constraint (a UniqueViolation) fails; the handler does not catch it.
create_attendance_commit(p) ==
    /\ pc[p] = "create_attendance_commit"
    /\ UNCHANGED <<employees, nextEmpId>>
    /\ LET row == NewAttendance(req[p].body) IN
       IF ForeignKeyOK(row) /\ AttendanceUniqueOK(row)
       THEN /\ attendance' = With(attendance, nextAttId, row)
            /\ nextAttId' = nextAttId + 1
            /\ Respond(p, Response("create_attendance", nextAttId, req[p].body,
                                   HTTP_201_CREATED, "none"))
       ELSE /\ UNCHANGED <<attendance, nextAttId>>
            /\ Respond(p, Response("create_attendance", 0, req[p].body, HTTP_500_INTERNAL,
                       IF ForeignKeyOK(row) THEN "UniqueViolation"
                                            ELSE "ForeignKeyViolation"))

----------------------------------------------------------------------------
(* PUT /api/attendance/{attendance_id} *)

update_attendance_begin(p, attendance_id, attendance_in) ==
    /\ pc[p] = "idle"
    /\ StoreUnchanged
    /\ IF ~StatusValid(attendance_in.status)
       THEN Respond(p, Response("update_attendance", attendance_id, attendance_in,
                                HTTP_422_UNPROCESSABLE, "ValidationError"))
       ELSE IF attendance_id \notin DOMAIN attendance
       THEN Respond(p, Response("update_attendance", attendance_id, attendance_in,
                                HTTP_404_NOT_FOUND, "HTTPException"))
       ELSE Continue(p, "update_attendance_commit",
                     Request("update_attendance", attendance_id, attendance_in, attendance[attendance_id]))

\* attendance.status = attendance_in.status, on the row as the store holds it.
AttendanceUpdated(row, attendance_in) ==
    [employee_id |-> row.employee_id,
     date        |-> row.date,
     status      |-> attendance_in.status]

\* db.commit(); db.refresh(attendance): errors as for update_employee.  A
\* status equal to the one the session loaded is no change, and no UPDATE.
update_attendance_commit(p) ==
    /\ pc[p] = "update_attendance_commit"
    /\ UNCHANGED <<employees, nextEmpId, nextAttId>>
    /\ LET id == req[p].id
           dirty == req[p].body.status # req[p].snap.status
       IN
       IF id \notin DOMAIN attendance
       THEN /\ UNCHANGED attendance
            /\ Respond(p, Response("update_attendance", id, req[p].body, HTTP_500_INTERNAL,
                       IF dirty THEN "StaleDataError" ELSE "InvalidRequestError"))
       ELSE /\ attendance' = IF dirty
                             THEN With(attendance, id,
                                       AttendanceUpdated(attendance[id], req[p].body))
                             ELSE attendance
            /\ Respond(p, Response("update_attendance", id, req[p].body,
                                   HTTP_200_OK, "none"))

----------------------------------------------------------------------------
(* DELETE /api/attendance/{attendance_id} *)

delete_attendance_begin(p, attendance_id) ==
    /\ pc[p] = "idle"
    /\ StoreUnchanged
    /\ IF attendance_id \notin DOMAIN attendance
       THEN Respond(p, Response("delete_attendance", attendance_id, <<>>,
                                HTTP_404_NOT_FOUND, "HTTPException"))
       ELSE Continue(p, "delete_attendance_commit",
                     Request("delete_attendance", attendance_id, <<>>, <<>>))

delete_attendance_commit(p) ==
    /\ pc[p] = "delete_attendance_commit"
    /\ UNCHANGED <<employees, nextEmpId, nextAttId>>
    /\ attendance' = Without(attendance, req[p].id)
    /\ Respond(p, Response("delete_attendance", req[p].id, <<>>,
                           HTTP_204_NO_CONTENT, "none"))

----------------------------------------------------------------------------
(* GET /api/attendance/{employee_id} *)

list_attendance_for_employee_begin(p, employee_id) ==
    /\ pc[p] = "idle"
    /\ StoreUnchanged
    /\ IF employee_id \notin DOMAIN employees
       THEN Respond(p, Response("list_attendance_for_employee", employee_id, <<>>,
                                HTTP_404_NOT_FOUND, "HTTPException"))
       ELSE Continue(p, "list_attendance_for_employee_query",
                     Request("list_attendance_for_employee", employee_id, <<>>, <<>>))

\* The ids of the rows in `ids`, by date descending.
RECURSIVE ByDateDesc(_)
ByDateDesc(ids) ==
    IF ids = {} THEN <<>>
    ELSE LET top == CHOOSE i \in ids :
                        \A j \in ids : attendance[j].date < attendance[i].date
                                       \/ (attendance[j].date = attendance[i].date /\ j >= i)
         IN <<top>> \o ByDateDesc(ids \ {top})

list_attendance_for_employee_query(p) ==
    /\ pc[p] = "list_attendance_for_employee_query"
    /\ StoreUnchanged
    /\ Respond(p, Response("list_attendance_for_employee", req[p].id,
                           ByDateDesc(AttendanceOfEmployee(req[p].id)),
                           HTTP_200_OK, "none"))

----------------------------------------------------------------------------
(* Requests *)

EmployeeIds == 1..MaxEmployees
AttendanceIds == 1..MaxAttendance

Codes == {"E1", "E2"}
Emails == {"ann@x.com", "bob@x.com"}
Dates == {20240101, 20240102}

\* The JSON bodies of PUT /api/employees/{id} over the given values: every
\* key is omitted, null or one of its values.
UpdateBodies(names, emails, departments) ==
    LET vals(k) == IF k = "full_name" THEN names
                   ELSE IF k = "email" THEN emails ELSE departments
        all == {None} \cup {Some(v) : v \in names \cup emails \cup departments}
    IN UNION {{b \in [S -> all] : \A k \in S : IsNone(b[k]) \/ Val(b[k]) \in vals(k)} :
              S \in SUBSET {"full_name", "email", "department"}}

Ann == [employee_id |-> "E1", full_name |-> "Ann", email |-> "ann@x.com", department |-> None]
Bob == [employee_id |-> "E2", full_name |-> "Bob", email |-> "bob@x.com", department |-> None]
Rob == [employee_id |-> "E1", full_name |-> "Rob", email |-> "bob@x.com", department |-> None]

----------------------------------------------------------------------------
(* Spec: two workers, every handler *)

EmployeeCreates == {Ann, Bob, Rob}
EmployeeUpdates == {[email |-> Some("bob@x.com")]}
AttendanceCreates == [employee_id : EmployeeIds, date : {20240101}, status : {"Present"}]
AttendanceUpdates == [status : {"Absent", "Late"}]

Next ==
    \E p \in Procs :
        \/ \E b \in EmployeeCreates : create_employee_begin(p, b)
        \/ create_employee_email(p)
        \/ create_employee_commit(p)
        \/ \E i \in EmployeeIds, b \in EmployeeUpdates : update_employee_begin(p, i, b)
        \/ update_employee_email(p)
        \/ update_employee_commit(p)
        \/ \E i \in EmployeeIds : delete_employee_begin(p, i)
        \/ delete_employee_commit(p)
        \/ \E b \in AttendanceCreates : create_attendance_begin(p, b)
        \/ create_attendance_existing(p)
        \/ create_attendance_commit(p)
        \/ \E i \in AttendanceIds, b \in AttendanceUpdates : update_attendance_begin(p, i, b)
        \/ update_attendance_commit(p)
        \/ \E i \in AttendanceIds : delete_attendance_begin(p, i)
        \/ delete_attendance_commit(p)
        \/ \E i \in EmployeeIds : list_attendance_for_employee_begin(p, i)
        \/ list_attendance_for_employee_query(p)
        \/ get_db_close(p)

Spec == Init /\ [][Next]_vars

----------------------------------------------------------------------------
(* SpecAttendance: two workers, the handlers that write Attendance records *)
(* or delete their Employees, over two dates                               *)

AttendanceCreates2 == [employee_id : EmployeeIds, date : Dates, status : {"Present"}]
AttendanceUpdates2 == [status : {"Absent"}]

NextAttendance ==
    \E p \in Procs :
        \/ \E b \in {Ann, Bob} : create_employee_begin(p, b)
        \/ create_employee_email(p)
        \/ create_employee_commit(p)
        \/ \E i \in EmployeeIds : delete_employee_begin(p, i)
        \/ delete_employee_commit(p)
        \/ \E b \in AttendanceCreates2 : create_attendance_begin(p, b)
        \/ create_attendance_existing(p)
        \/ create_attendance_commit(p)
        \/ \E i \in AttendanceIds, b \in AttendanceUpdates2 : update_attendance_begin(p, i, b)
        \/ update_attendance_commit(p)
        \/ \E i \in AttendanceIds : delete_attendance_begin(p, i)
        \/ delete_attendance_commit(p)
        \/ get_db_close(p)

SpecAttendance == Init /\ [][NextAttendance]_vars

----------------------------------------------------------------------------------------------------------------------------------------
(* SpecFields: one worker, the Employee handlers over payloads that omit, *)
(* null or set each field, and Create Attendance                           *)

EmployeeCreatesF ==
    [employee_id : Codes, full_name : {"Ann"}, email : Emails,
     department : {None, Some("Eng")}]
EmployeeUpdatesF == UpdateBodies({"Bob"}, Emails, {"Ops", ""})
AttendanceCreatesF ==
    [employee_id : EmployeeIds, date : {20240101}, status : {"Present", "Late"}]

NextFields ==
    \E p \in {"w1"} :
        \/ \E b \in EmployeeCreatesF : create_employee_begin(p, b)
        \/ create_employee_email(p)
        \/ create_employee_commit(p)
        \/ \E i \in EmployeeIds, b \in EmployeeUpdatesF : update_employee_begin(p, i, b)
        \/ update_employee_email(p)
        \/ update_employee_commit(p)
        \/ \E i \in EmployeeIds : delete_employee_begin(p, i)
        \/ delete_employee_commit(p)
        \/ \E b \in AttendanceCreatesF : create_attendance_begin(p, b)
        \/ create_attendance_existing(p)
        \/ create_attendance_commit(p)
        \/ get_db_close(p)

SpecFields == Init /\ [][NextFields]_vars

----------------------------------------------------------------------------
(* SpecLengths: one worker, Create Employee and Update Employee over field *)
(* values on both sides of every length limit                              *)

CodesL == {"E1", "", Rep("c", MaxEmployeeIdLength), Rep("c", MaxEmployeeIdLength + 1)}
NamesL == {"Ann", "", Rep("n", MaxFullNameLength), Rep("n", MaxFullNameLength + 1)}
DepartmentsL == {"Eng", "", Rep("d", MaxDepartmentLength), Rep("d", MaxDepartmentLength + 1)}

EmployeeCreatesL ==
    [employee_id : CodesL, full_name : NamesL, email : {"ann@x.com"},
     department : {None} \cup {Some(d) : d \in DepartmentsL}]
EmployeeUpdatesL == UpdateBodies(NamesL, Emails, DepartmentsL)

NextLengths ==
    \E p \in {"w1"} :
        \/ \E b \in EmployeeCreatesL : create_employee_begin(p, b)
        \/ create_employee_email(p)
        \/ create_employee_commit(p)
        \/ \E i \in EmployeeIds, b \in EmployeeUpdatesL : update_employee_begin(p, i, b)
        \/ update_employee_email(p)
        \/ update_employee_commit(p)
        \/ get_db_close(p)

SpecLengths == Init /\ [][NextLengths]_vars

----------------------------------------------------------------------------
(* Properties *)

\* Worker p answers its request in this step.
Completes(p) == pc[p] # "done" /\ pc'[p] = "done"

\* Worker p takes up a request in this step (and may answer it at once).
Begins(p) == pc[p] = "idle" /\ pc'[p] # "idle"

Done(p, op, code) == pc[p] = "done" /\ req[p].op = op /\ req[p].code = code

EmployeeKeysUnique(emps) ==
    \A i, j \in DOMAIN emps :
        i # j => /\ emps[i].employee_id # emps[j].employee_id
                 /\ emps[i].email # emps[j].email

\* A stored Employee holds the employee_id or the email of payload b.
KeyTaken(b) == EmployeeByEmployeeId(b.employee_id) # {} \/ EmployeeByEmail(b.email) # {}

\* C1: under every interleaving of the Employee handlers no two stored
\* Employees share an employee_id or an email; a Create Employee answered
\* while a stored Employee holds its employee_id or email adds no Employee and
\* is never answered 201; a Create Employee runs its employee_id query, then
\* its email query, then its commit, and when a query sees a stored Employee
\* with its value it is answered 400 in that step.
C1_EmployeeKeysUnique ==
    [][/\ EmployeeKeysUnique(employees')
       /\ \A p \in Procs :
            /\ (Completes(p) /\ req'[p].op = "create_employee" /\ KeyTaken(req'[p].body))
               => /\ employees' = employees
                  /\ req'[p].code # HTTP_201_CREATED
                  /\ (pc[p] # "create_employee_commit"
                      => req'[p].code = HTTP_400_BAD_REQUEST)
            /\ (Begins(p) /\ req'[p].op = "create_employee"
                /\ EmployeeCreateValid(req'[p].body))
               => IF EmployeeByEmployeeId(req'[p].body.employee_id) # {}
                  THEN pc'[p] = "done" /\ req'[p].code = HTTP_400_BAD_REQUEST
                  ELSE pc'[p] = "create_employee_email"
            /\ (pc[p] = "create_employee_email" /\ pc'[p] # pc[p])
               => IF EmployeeByEmail(req[p].body.email) # {}
                  THEN pc'[p] = "done" /\ req'[p].code = HTTP_400_BAD_REQUEST
                  ELSE pc'[p] = "create_employee_commit"]_vars

\* Two Employees are stored, and a Create Employee for the key of one of them
\* has been answered 400.
C1_Witness ==
    /\ Cardinality(DOMAIN employees) = 2
    /\ \E p \in Procs :
        /\ Done(p, "create_employee", HTTP_400_BAD_REQUEST)
        /\ KeyTaken(req[p].body)

AttendancePairsUnique(att) ==
    \A i, j \in DOMAIN att :
        i # j => \/ att[i].employee_id # att[j].employee_id
                 \/ att[i].date # att[j].date

\* C2: under every interleaving there is at most one Attendance record per
\* (employee_id, date); a Create Attendance whose query sees a record of its
\* employee and date is answered 400 and adds none; a Create Attendance that
\* commits while its Employee is stored and no record of its employee and date
\* is, is answered 201 and adds the record, whatever other dates the employee
\* has; and no step changes the employee_id or the date of a record.
C2_AttendancePairsUnique ==
    [][/\ AttendancePairsUnique(attendance')
       /\ \A p \in Procs :
            /\ (pc[p] = "create_attendance_existing" /\ pc'[p] # pc[p]
                /\ AttendanceByEmployeeDate(req[p].body.employee_id, req[p].body.date) # {})
               => /\ pc'[p] = "done"
                  /\ req'[p].code = HTTP_400_BAD_REQUEST
                  /\ attendance' = attendance
            /\ (pc[p] = "create_attendance_commit" /\ pc'[p] # pc[p]
                /\ req[p].body.employee_id \in DOMAIN employees
                /\ AttendanceByEmployeeDate(req[p].body.employee_id, req[p].body.date) = {})
               => /\ req'[p].code = HTTP_201_CREATED
                  /\ req'[p].id \notin DOMAIN attendance
                  /\ attendance' = With(attendance, req'[p].id, NewAttendance(req[p].body))
       /\ \A i \in DOMAIN attendance \cap DOMAIN attendance' :
            /\ attendance'[i].employee_id = attendance[i].employee_id
            /\ attendance'[i].date = attendance[i].date]_vars

\* One Employee has records on two dates, one of them updated to Absent, and a
\* Create Attendance for a date it has has been answered 400.
C2_Witness ==
    /\ \E i, j \in DOMAIN attendance :
        /\ attendance[i].employee_id = attendance[j].employee_id
        /\ attendance[i].date # attendance[j].date
        /\ attendance[i].status = "Absent"
    /\ \E p \in Procs :
        /\ Done(p, "create_attendance", HTTP_400_BAD_REQUEST)
        /\ AttendanceByEmployeeDate(req[p].body.employee_id, req[p].body.date) # {}

\* The Employee ids that were assigned and are stored no more.
DeletedEmployeeIds == {e \in 1..(nextEmpId - 1) : e \notin DOMAIN employees}

\* C3: a Delete Employee answered 204 for id e leaves the store without
\* Employee e and without Attendance records of e, and with every other Employee
\* and every Attendance record of other Employees as it was; no Attendance
\* record of a deleted Employee is ever stored; and an Update Employee, Delete
\* Employee or List Attendance For Employee taken up for a deleted id is
\* answered 404.
C3_DeleteEmployeeCascades ==
    [][/\ \A p \in Procs :
            (Completes(p) /\ req'[p].op = "delete_employee"
             /\ req'[p].code = HTTP_204_NO_CONTENT)
            => LET e == req[p].id IN
               /\ employees' = Without(employees, e)
               /\ AttendanceOfEmployee(e)' = {}
               /\ \A i \in DOMAIN attendance :
                    attendance[i].employee_id # e
                    => i \in DOMAIN attendance' /\ attendance'[i] = attendance[i]
               /\ DOMAIN attendance' \subseteq DOMAIN attendance
       /\ \A e \in DeletedEmployeeIds' : AttendanceOfEmployee(e)' = {}
       /\ DeletedEmployeeIds \subseteq DeletedEmployeeIds'
       /\ \A p \in Procs :
            (Begins(p) /\ req'[p].id \in DeletedEmployeeIds
             /\ req'[p].op \in {"update_employee", "delete_employee",
                                "list_attendance_for_employee"})
            => /\ pc'[p] = "done"
               /\ req'[p].code = HTTP_404_NOT_FOUND]_vars

\* An Employee was deleted after an Attendance record was made, a List Attendance
\* For Employee for its id has been answered 404, and another Employee and its
\* Attendance record are stored.
C3_Witness ==
    /\ \E p \in Procs :
        /\ Done(p, "list_attendance_for_employee", HTTP_404_NOT_FOUND)
        /\ req[p].id \in DeletedEmployeeIds
    /\ \E q \in Procs : Done(q, "delete_employee", HTTP_204_NO_CONTENT)
    /\ nextAttId = MaxAttendance + 1
    /\ Cardinality(DOMAIN attendance) = 1
    /\ employees # <<>>

\* C4: a step that answers 404 or 400 leaves the Employees and the Attendance
\* records as they were, and so does every step but the commit of a request
\* answered 200, 201 or 204: a request answered with an error has written
\* nothing.  A Create Attendance taken up for an Employee id that is not stored
\* is answered 404 in that step.
C4_ErrorsWriteNothing ==
    [][/\ \A p \in Procs :
            (Completes(p) /\ req'[p].code \in {HTTP_404_NOT_FOUND, HTTP_400_BAD_REQUEST})
            => employees' = employees /\ attendance' = attendance
       /\ (employees' # employees \/ attendance' # attendance)
          => \E p \in Procs :
                /\ Completes(p)
                /\ req'[p].code \in {HTTP_200_OK, HTTP_201_CREATED, HTTP_204_NO_CONTENT}
                /\ \A q \in Procs \ {p} : pc'[q] = pc[q] /\ req'[q] = req[q]
       /\ \A p \in Procs :
            (Begins(p) /\ req'[p].op = "create_attendance"
             /\ StatusValid(req'[p].body.status)
             /\ req'[p].body.employee_id \notin DOMAIN employees)
            => /\ pc'[p] = "done"
               /\ req'[p].code = HTTP_404_NOT_FOUND]_vars

\* A Create Attendance for an Employee id that is not stored has been answered
\* 404 while an Employee and an Attendance record are stored.
C4_Witness ==
    /\ employees # <<>>
    /\ attendance # <<>>
    /\ \E p \in Procs :
        /\ Done(p, "create_attendance", HTTP_404_NOT_FOUND)
        /\ req[p].body.employee_id \notin DOMAIN employees

\* C7: a request whose commit loses the race on a uniqueness constraint is
\* answered 400.
C7_RaceLoserGetsDuplicateKey ==
    \A p \in Procs :
        (pc[p] = "done" /\ req[p].exc = "UniqueViolation")
        => req[p].code = HTTP_400_BAD_REQUEST

\* C10: every stored Attendance record references a stored Employee.
C10_NoOrphanAttendance ==
    \A i \in DOMAIN attendance : attendance[i].employee_id \in DOMAIN employees

\* A Create Attendance passed its existence check, the Delete Employee of its
\* Employee committed, and the Create Attendance was then refused by the store.
C10_Witness ==
    \E p \in Procs :
        /\ Done(p, "create_attendance", HTTP_500_INTERNAL)
        /\ req[p].exc = "ForeignKeyViolation"
        /\ req[p].body.employee_id \in DeletedEmployeeIds

\* The value a row holds in column k for the payload value o (department is
\* nullable, the other columns are not).
Stored(k, o) == IF k = "department" THEN o ELSE Val(o)

Mutable == {"full_name", "email", "department"}

\* C5: an Update Employee answered 200 whose payload holds exactly one of
\* full_name, email, department leaves the other two as they were and, when the
\* value is not null, stores it in that field; an Update Employee answered 200
\* changes no other Employee and no Attendance record; and no step changes the
\* employee_id or the created_at of a stored Employee, or the id it is stored
\* under.
C5_UpdateChangesOnlySuppliedField ==
    [][/\ \A p \in Procs :
            (Completes(p) /\ req'[p].op = "update_employee" /\ req'[p].code = HTTP_200_OK)
            => LET id == req[p].id
                   body == req[p].body
               IN
               /\ DOMAIN employees' = DOMAIN employees
               /\ \A j \in DOMAIN employees \ {id} : employees'[j] = employees[j]
               /\ attendance' = attendance
               /\ Cardinality(DOMAIN body) = 1
                  => \A k \in Mutable :
                        IF k \notin DOMAIN body
                        THEN employees'[id][k] = employees[id][k]
                        ELSE ~IsNone(body[k]) => employees'[id][k] = Stored(k, body[k])
       /\ \A i \in DOMAIN employees \cap DOMAIN employees' :
            /\ employees'[i].employee_id = employees[i].employee_id
            /\ employees'[i].created_at = employees[i].created_at]_vars

\* An Update Employee holding only department has been answered 200: the
\* Employee has the new department and the full_name and email it was created
\* with, and another Employee and an Attendance record are stored.
C5_Witness ==
    \E p \in Procs :
        /\ Done(p, "update_employee", HTTP_200_OK)
        /\ DOMAIN req[p].body = {"department"}
        /\ req[p].body["department"] = Some("Ops")
        /\ req[p].id \in DOMAIN employees
        /\ employees[req[p].id].department = Some("Ops")
        /\ employees[req[p].id].full_name = "Ann"
        /\ Cardinality(DOMAIN employees) = 2
        /\ attendance # <<>>

\* The payload sets an email that is not the Employee's and that another
\* stored Employee holds.
EmailOfAnother(id, body) ==
    /\ "email" \in DOMAIN body
    /\ ~IsNone(body["email"])
    /\ Val(body["email"]) # employees[id].email
    /\ \E j \in DOMAIN employees \ {id} : employees[j].email = Val(body["email"])

\* The payload sets the email the Employee has.
EmailOfItsOwn(id, body) ==
    /\ "email" \in DOMAIN body
    /\ ~IsNone(body["email"])
    /\ Val(body["email"]) = employees[id].email

\* C6: an Update Employee of a stored Employee whose payload sets the email of
\* another stored Employee is answered 400 and applies none of its fields; one
\* whose payload sets the Employee's own email is answered 200, and the
\* full_name and department it sets are applied.
C6_UpdateEmailDuplicate ==
    [][\A p \in Procs :
        (Completes(p) /\ req'[p].op = "update_employee"
         /\ req'[p].id \in DOMAIN employees
         /\ EmployeeUpdateValid(EmployeeUpdateParse(req'[p].body)))
        => LET id == req'[p].id
               body == req'[p].body
           IN
           /\ EmailOfAnother(id, body)
              => req'[p].code = HTTP_400_BAD_REQUEST /\ employees' = employees
           /\ EmailOfItsOwn(id, body)
              => /\ req'[p].code = HTTP_200_OK
                 /\ id \in DOMAIN employees'
                 /\ employees'[id].email = employees[id].email
                 /\ \A k \in DOMAIN body \ {"email"} :
                        ~IsNone(body[k]) => employees'[id][k] = Stored(k, body[k])]_vars

\* An Update Employee setting the Employee's own email and a new full_name has
\* been answered 200 while another Employee is stored, and the full_name is
\* applied.
C6_Witness ==
    \E p \in Procs :
        /\ Done(p, "update_employee", HTTP_200_OK)
        /\ DOMAIN req[p].body = {"email", "full_name"}
        /\ ~IsNone(req[p].body["full_name"])
        /\ req[p].id \in DOMAIN employees
        /\ Some(employees[req[p].id].email) = req[p].body["email"]
        /\ Some(employees[req[p].id].full_name) = req[p].body["full_name"]
        /\ employees[req[p].id].full_name # "Ann"
        /\ Cardinality(DOMAIN employees) = 2

\* C8: an Update Employee answered 200 that omits department leaves the stored
\* department as it was, and one that sets department to null clears it.
C8_NullClearsDepartment ==
    [][\A p \in Procs :
        (Completes(p) /\ req'[p].op = "update_employee" /\ req'[p].code = HTTP_200_OK)
        => LET id == req[p].id
               body == req[p].body
           IN
           IF "department" \notin DOMAIN body
           THEN employees'[id].department = employees[id].department
           ELSE IsNone(body["department"]) => IsNone(employees'[id].department)]_vars

LengthsOK(row) ==
    /\ Len(row.full_name) >= 1 /\ Len(row.full_name) <= 255
    /\ Len(row.employee_id) >= 1 /\ Len(row.employee_id) <= 50
    /\ (IsNone(row.department) \/ Len(Val(row.department)) <= 100)

\* The payload of a Create Employee or Update Employee sets a field to a value
\* outside the lengths of the data model.
ViolatesLengths(r) ==
    LET body == r.body IN
    \/ /\ r.op = "create_employee"
       /\ ~LengthsOK(body)
    \/ /\ r.op = "update_employee"
       /\ \/ /\ "full_name" \in DOMAIN body /\ ~IsNone(body["full_name"])
             /\ (Len(Val(body["full_name"])) < 1 \/ Len(Val(body["full_name"])) > 255)
          \/ /\ "department" \in DOMAIN body /\ ~IsNone(body["department"])
             /\ Len(Val(body["department"])) > 100

\* C9: every stored Employee has a full_name of 1 to 255 characters, an
\* employee_id of 1 to 50 and a department that is absent or of at most 100; a
\* Create Employee or Update Employee whose fields violate these lengths is
\* answered with a ValidationError in the step that takes it up, the store as it
\* was.
C9_StoredLengths ==
    [][/\ \A i \in DOMAIN employees' : LengthsOK(employees'[i])
       /\ \A p \in Procs :
            (Begins(p) /\ ViolatesLengths(req'[p]))
            => /\ pc'[p] = "done"
               /\ req'[p].exc = "ValidationError"
               /\ employees' = employees]_vars

====
